---- MODULE Spec2Model ----
(***************************************************************************)
(* Model of the KML encoder (src/src/writer.rs): KmlWriter over a sink,    *)
(* the Display wrapper, and the document tree the encoder traverses.       *)
(*                                                                         *)
(* A tree node is a record with a "kind" field naming the Kml variant.     *)
(* The encoder is a family of operators write_* returning the sequence of  *)
(* writes the code issues to quick_xml::Writer, in order; the Write action *)
(* feeds them to a sink that may refuse a write.                           *)
(***************************************************************************)
EXTENDS Integers, Sequences, FiniteSets, TLC

VARIABLES
    kml,        \* the tree handed to the encoder (never mutated by it)
    buf,        \* the writes the sink accepted during the latest KmlWriter::write
    res,        \* result of the latest KmlWriter::write: "None" (not called), "Ok", "Err"
    sinkFailed, \* TRUE iff the sink refused a write during the latest KmlWriter::write
    outs,       \* byte output of every completed successful encode of kml, oldest first
    str,        \* result of the latest to_string(): [ok, s]
    decoded     \* result of decoding the sink's content: [ok, tree]

vars == <<kml, buf, res, sinkFailed, outs, str, decoded>>

---------------------------------------------------------------------------
(* Bounds of the model *)

MaxAttrs == 2       \* keys per attribute mapping
MaxCoords == 2      \* coordinates per LineString / LinearRing
MaxInner == 2       \* inner rings per Polygon
MaxChildren == 2    \* members per child list (containers, MultiGeometry, ...)
MaxSinkWrites == 2  \* a failing sink refuses its n-th write, n <= MaxSinkWrites + 1
MaxRuns == 2        \* successful encodes remembered per tree

---------------------------------------------------------------------------
(* Option<T> *)

None == [some |-> FALSE]
Some(v) == [some |-> TRUE, v |-> v]
Opt(S) == {None} \cup {Some(v) : v \in S}

(* Sequences over S of length lo..hi *)
SeqsBetween(S, lo, hi) == UNION {[1..n -> S] : n \in lo..hi}

RECURSIVE Flatten(_)
Flatten(ss) == IF ss = <<>> THEN <<>> ELSE Head(ss) \o Flatten(Tail(ss))

RECURSIVE SortedSeq(_)
SortedSeq(S) ==
    IF S = {} THEN <<>>
    ELSE LET m == CHOOSE x \in S : \A y \in S : x <= y
         IN <<m>> \o SortedSeq(S \ {m})

RECURSIVE JoinWith(_, _)
JoinWith(ss, sep) ==
    IF ss = <<>> THEN ""
    ELSE IF Len(ss) = 1 THEN ss[1]
    ELSE LET h == Len(ss) \div 2
         IN JoinWith(SubSeq(ss, 1, h), sep) \o sep \o JoinWith(SubSeq(ss, h + 1, Len(ss)), sep)

---------------------------------------------------------------------------
(* HashMap<String, String>: the table as its iteration order lays it out,  *)
(* a sequence of <<key, value>> pairs with distinct keys.  Two maps are    *)
(* equal (PartialEq) when they hold the same pairs.                        *)

AttrKeyList == <<"id", "name", "schemaUrl", "xmlns">>
AttrKeys == {AttrKeyList[i] : i \in 1..(IF MaxAttrs < Len(AttrKeyList) THEN MaxAttrs ELSE Len(AttrKeyList))}
AttrVal(k) == IF k = "id" THEN "Some ID" ELSE k \o "Val"

HashMaps ==
    {[i \in 1..Len(ks) |-> <<ks[i], AttrVal(ks[i])>>] :
        ks \in {s \in SeqsBetween(AttrKeys, 0, MaxAttrs) :
                    \A i, j \in 1..Len(s) : i # j => s[i] # s[j]}}

EmptyMap == <<>>
MapPairs(m) == {m[i] : i \in 1..Len(m)}

---------------------------------------------------------------------------
(* Scalars and their text forms *)

(* A float is held in tenths: 35 is 3.5, 20 is 2.0, -15 is -1.5. *)
Floats == {-15, 0, 10, 35}
FloatToString(f) ==
    LET a == IF f < 0 THEN -f ELSE f
        s == ToString(a \div 10) \o (IF a % 10 = 0 THEN "" ELSE "." \o ToString(a % 10))
    IN IF f < 0 THEN "-" \o s ELSE s

BoolToString(b) == IF b THEN "true" ELSE "false"

AltitudeModes == {"ClampToGround", "RelativeToGround", "Absolute"}
AltitudeModeToString(m) ==
    CASE m = "ClampToGround" -> "clampToGround"
      [] m = "RelativeToGround" -> "relativeToGround"
      [] m = "Absolute" -> "absolute"

RefreshModes == {"OnChange", "OnInterval", "OnExpire"}
RefreshModeToString(m) ==
    CASE m = "OnChange" -> "onChange"
      [] m = "OnInterval" -> "onInterval"
      [] m = "OnExpire" -> "onExpire"

ViewRefreshModes == {"Never", "OnStop", "OnRequest", "OnRegion"}
ViewRefreshModeToString(m) ==
    CASE m = "Never" -> "never"
      [] m = "OnStop" -> "onStop"
      [] m = "OnRequest" -> "onRequest"
      [] m = "OnRegion" -> "onRegion"

ColorModes == {"Default", "Random"}
ColorModeToString(m) ==
    CASE m = "Default" -> "normal"
      [] m = "Random" -> "random"

UnitsSet == {"Fraction", "Pixels"}
UnitsToString(u) ==
    CASE u = "Fraction" -> "fraction"
      [] u = "Pixels" -> "pixels"

(* Coord<T>: x, y and an optional z *)
Coord(x, y, z) == [x |-> x, y |-> y, z |-> z]
CoordToString(c) ==
    IF c.z.some
    THEN FloatToString(c.x) \o "," \o FloatToString(c.y) \o "," \o FloatToString(c.z.v)
    ELSE FloatToString(c.x) \o "," \o FloatToString(c.y)

---------------------------------------------------------------------------
(* What the encoder hands to quick_xml::Writer, one record per call *)

Start(name, attrs) == [t |-> "Start", name |-> name, attrs |-> attrs, text |-> ""]
End(name) == [t |-> "End", name |-> name, attrs |-> <<>>, text |-> ""]
Text(content) == [t |-> "Text", name |-> "", attrs |-> <<>>, text |-> content]
(* Writer::write: bytes pushed to the sink as they are, no event involved *)
Raw(bytes) == [t |-> "Raw", name |-> "", attrs |-> <<>>, text |-> bytes]
(* an Err(..) returned by the encoder itself, not by the sink *)
ErrStep == [t |-> "Err", name |-> "", attrs |-> <<>>, text |-> ""]

---------------------------------------------------------------------------
(* KmlWriter: one operator per write routine, returning the writes it      *)
(* issues in order.  Every write is followed by `?` in the code, so the    *)
(* first write the sink refuses ends the whole encode (see Write below).   *)

write_text_element(tag, content) ==
    <<Start(tag, <<>>), Text(content), End(tag)>>

(* mutant: the iteration order is drawn afresh on every traversal *)
hash_map_as_attrs_reordered(hash_map) ==
    IF Len(outs) % 2 = 1
    THEN [i \in 1..Len(hash_map) |-> <<hash_map[Len(hash_map) + 1 - i][1],
                                        hash_map[Len(hash_map) + 1 - i][2]>>]
    ELSE [i \in 1..Len(hash_map) |-> <<hash_map[i][1], hash_map[i][2]>>]

hash_map_as_attrs(hash_map) ==
    [i \in 1..Len(hash_map) |-> <<hash_map[i][1], hash_map[i][2]>>]

(* mutant: a component left at its default (1) is not written *)
write_scale_omitting_default(scale) ==
    <<Start("Scale", <<>>)>>
    \o (IF scale.x # 10 THEN write_text_element("x", FloatToString(scale.x)) ELSE <<>>)
    \o (IF scale.y # 10 THEN write_text_element("y", FloatToString(scale.y)) ELSE <<>>)
    \o (IF scale.z # 10 THEN write_text_element("z", FloatToString(scale.z)) ELSE <<>>)
    \o <<End("Scale")>>

write_scale(scale) ==
    <<Start("Scale", <<>>)>>
    \o write_text_element("x", FloatToString(scale.x))
    \o write_text_element("y", FloatToString(scale.y))
    \o write_text_element("z", FloatToString(scale.z))
    \o <<End("Scale")>>

write_orientation(orientation) ==
    <<Start("Orientation", <<>>)>>
    \o write_text_element("roll", FloatToString(orientation.roll))
    \o write_text_element("tilt", FloatToString(orientation.tilt))
    \o write_text_element("heading", FloatToString(orientation.heading))
    \o <<End("Orientation")>>

write_point(point) ==
    <<Start("Point", <<>>)>>
    \o write_text_element("extrude", IF point.extrude THEN "1" ELSE "0")
    \o write_text_element("altitudeMode", AltitudeModeToString(point.altitude_mode))
    \o write_text_element("coordinates", CoordToString(point.coord))
    \o <<End("Point")>>

write_location(location) ==
    <<Start("Location", <<>>)>>
    \o write_text_element("longitude", FloatToString(location.longitude))
    \o write_text_element("latitude", FloatToString(location.latitude))
    \o write_text_element("altitude", FloatToString(location.altitude))
    \o <<End("Location")>>

GeomProps(coords, altitude_mode, extrude, tessellate) ==
    [coords |-> coords, altitude_mode |-> altitude_mode,
     extrude |-> extrude, tessellate |-> tessellate]

(* mutant: every coordinate is followed by a newline, the last one included *)
write_geom_props_newline_terminated(props) ==
    write_text_element("extrude", IF props.extrude THEN "1" ELSE "0")
    \o write_text_element("tessellate", IF props.tessellate THEN "1" ELSE "0")
    \o write_text_element("altitudeMode", AltitudeModeToString(props.altitude_mode))
    \o (IF props.coords # <<>>
        THEN write_text_element("coordinates",
                JoinWith([i \in 1..Len(props.coords) |->
                            CoordToString(props.coords[i]) \o "\n"], ""))
        ELSE <<>>)

(* mutant: altitudeMode written before tessellate *)
write_geom_props_misordered(props) ==
    write_text_element("extrude", IF props.extrude THEN "1" ELSE "0")
    \o write_text_element("altitudeMode", AltitudeModeToString(props.altitude_mode))
    \o write_text_element("tessellate", IF props.tessellate THEN "1" ELSE "0")
    \o (IF props.coords # <<>>
        THEN write_text_element("coordinates",
                JoinWith([i \in 1..Len(props.coords) |-> CoordToString(props.coords[i])], "\n"))
        ELSE <<>>)

write_geom_props(props) ==
    write_text_element("extrude", IF props.extrude THEN "1" ELSE "0")
    \o write_text_element("tessellate", IF props.tessellate THEN "1" ELSE "0")
    \o write_text_element("altitudeMode", AltitudeModeToString(props.altitude_mode))
    \o (IF props.coords # <<>>
        THEN write_text_element("coordinates",
                JoinWith([i \in 1..Len(props.coords) |-> CoordToString(props.coords[i])], "\n"))
        ELSE <<>>)

write_line_string(line_string) ==
    <<Start("LineString", <<>>)>>
    \o write_geom_props(GeomProps(line_string.coords, line_string.altitude_mode,
                                  line_string.extrude, line_string.tessellate))
    \o <<End("LineString")>>

write_linear_ring(linear_ring) ==
    <<Start("LinearRing", <<>>)>>
    \o write_geom_props(GeomProps(linear_ring.coords, linear_ring.altitude_mode,
                                  linear_ring.extrude, linear_ring.tessellate))
    \o <<End("LinearRing")>>

(* mutant: every inner ring gets an innerBoundaryIs wrapper of its own *)
write_polygon_wrapper_per_ring(polygon) ==
    <<Start("Polygon", hash_map_as_attrs(polygon.attrs))>>
    \o write_geom_props(GeomProps(<<>>, polygon.altitude_mode,
                                  polygon.extrude, polygon.tessellate))
    \o <<Start("outerBoundaryIs", <<>>)>>
    \o write_linear_ring(polygon.outer)
    \o <<End("outerBoundaryIs")>>
    \o Flatten([i \in 1..Len(polygon.inner) |->
                    <<Start("innerBoundaryIs", <<>>)>>
                    \o write_linear_ring(polygon.inner[i])
                    \o <<End("innerBoundaryIs")>>])
    \o <<End("Polygon")>>

(* mutant: the outer boundary wrapper is never closed *)
write_polygon_unclosed(polygon) ==
    <<Start("Polygon", hash_map_as_attrs(polygon.attrs))>>
    \o write_geom_props(GeomProps(<<>>, polygon.altitude_mode,
                                  polygon.extrude, polygon.tessellate))
    \o <<Start("outerBoundaryIs", <<>>)>>
    \o write_linear_ring(polygon.outer)
    \o (IF polygon.inner # <<>>
        THEN <<Start("innerBoundaryIs", <<>>)>>
             \o Flatten([i \in 1..Len(polygon.inner) |-> write_linear_ring(polygon.inner[i])])
             \o <<End("innerBoundaryIs")>>
        ELSE <<>>)
    \o <<End("Polygon")>>

write_polygon(polygon) ==
    <<Start("Polygon", hash_map_as_attrs(polygon.attrs))>>
    \o write_geom_props(GeomProps(<<>>, polygon.altitude_mode,
                                  polygon.extrude, polygon.tessellate))
    \o <<Start("outerBoundaryIs", <<>>)>>
    \o write_linear_ring(polygon.outer)
    \o <<End("outerBoundaryIs")>>
    \o (IF polygon.inner # <<>>
        THEN <<Start("innerBoundaryIs", <<>>)>>
             \o Flatten([i \in 1..Len(polygon.inner) |-> write_linear_ring(polygon.inner[i])])
             \o <<End("innerBoundaryIs")>>
        ELSE <<>>)
    \o <<End("Polygon")>>

RECURSIVE write_element(_)
write_element(e) ==
    <<Start(e.name, hash_map_as_attrs(e.attrs))>>
    \o (IF e.content.some THEN <<Text(e.content.v)>> ELSE <<>>)
    \o Flatten([i \in 1..Len(e.children) |-> write_element(e.children[i])])
    \o <<End(e.name)>>

RECURSIVE write_geometry(_)
(* mutant: the members after one that write_geometry has no arm for are not written *)
write_multi_geometry_stopping(multi_geometry) ==
    LET gs == multi_geometry.geometries
        uncovered == {i \in 1..Len(gs) :
                        gs[i].kind \notin {"Point", "LineString", "LinearRing", "Polygon",
                                           "MultiGeometry"}}
        last == IF uncovered = {} THEN Len(gs)
                ELSE (CHOOSE i \in uncovered : \A j \in uncovered : i <= j) - 1
    IN <<Start("MultiGeometry", hash_map_as_attrs(multi_geometry.attrs))>>
       \o Flatten([i \in 1..last |-> write_geometry(gs[i])])
       \o <<End("MultiGeometry")>>

write_multi_geometry(multi_geometry) ==
    <<Start("MultiGeometry", hash_map_as_attrs(multi_geometry.attrs))>>
    \o Flatten([i \in 1..Len(multi_geometry.geometries) |->
                    write_geometry(multi_geometry.geometries[i])])
    \o <<End("MultiGeometry")>>

(* mutant: a variant without an arm is refused instead of skipped *)
write_geometry_strict(geometry) ==
    CASE geometry.kind = "Point" -> write_point(geometry)
      [] geometry.kind = "LineString" -> write_line_string(geometry)
      [] geometry.kind = "LinearRing" -> write_linear_ring(geometry)
      [] geometry.kind = "Polygon" -> write_polygon(geometry)
      [] geometry.kind = "MultiGeometry" -> write_multi_geometry(geometry)
      [] OTHER -> <<ErrStep>>

write_geometry(geometry) ==
    CASE geometry.kind = "Point" -> write_point(geometry)
      [] geometry.kind = "LineString" -> write_line_string(geometry)
      [] geometry.kind = "LinearRing" -> write_linear_ring(geometry)
      [] geometry.kind = "Polygon" -> write_polygon(geometry)
      [] geometry.kind = "MultiGeometry" -> write_multi_geometry(geometry)
      [] OTHER -> <<>>

write_placemark(placemark) ==
    <<Start("Placemark", <<>>)>>
    \o (IF placemark.name.some THEN write_text_element("name", placemark.name.v) ELSE <<>>)
    \o (IF placemark.description.some
        THEN write_text_element("description", placemark.description.v) ELSE <<>>)
    \o Flatten([i \in 1..Len(placemark.children) |-> write_element(placemark.children[i])])
    \o (IF placemark.geometry.some THEN write_geometry(placemark.geometry.v) ELSE <<>>)
    \o <<End("Placemark")>>

write_pair(pair) ==
    <<Start("Pair", hash_map_as_attrs(pair.attrs))>>
    \o write_text_element("key", pair.key)
    \o write_text_element("styleUrl", pair.style_url)
    \o <<End("Pair")>>

write_balloon_style(balloon_style) ==
    <<Start("BalloonStyle", <<<<"id", balloon_style.id>>>>)>>
    \o (IF balloon_style.bg_color.some
        THEN write_text_element("bgColor", balloon_style.bg_color.v) ELSE <<>>)
    \o write_text_element("textColor", balloon_style.text_color)
    \o (IF balloon_style.text.some
        THEN write_text_element("text", balloon_style.text.v) ELSE <<>>)
    \o (IF ~balloon_style.display THEN write_text_element("displayMode", "hide") ELSE <<>>)
    \o <<End("BalloonStyle")>>

write_icon(icon) ==
    <<Start("Icon", <<>>)>>
    \o write_text_element("href", icon.href)
    \o <<End("Icon")>>

write_icon_style(icon_style) ==
    <<Start("IconStyle", <<<<"id", icon_style.id>>>>)>>
    \o write_text_element("scale", FloatToString(icon_style.scale))
    \o write_text_element("heading", FloatToString(icon_style.heading))
    \o (IF icon_style.hot_spot.some
        THEN <<Start("hotSpot", << <<"x", FloatToString(icon_style.hot_spot.v.x)>>,
                                   <<"y", FloatToString(icon_style.hot_spot.v.y)>>,
                                   <<"xunits", UnitsToString(icon_style.hot_spot.v.xunits)>>,
                                   <<"yunits", UnitsToString(icon_style.hot_spot.v.yunits)>> >>),
               End("hotSpot")>>
        ELSE <<>>)
    \o write_text_element("color", icon_style.color)
    \o write_text_element("colorMode", ColorModeToString(icon_style.color_mode))
    \o write_icon(icon_style.icon)
    \o <<End("IconStyle")>>

write_label_style(label_style) ==
    <<Start("LabelStyle", <<<<"id", label_style.id>>>>)>>
    \o write_text_element("color", label_style.color)
    \o write_text_element("colorMode", ColorModeToString(label_style.color_mode))
    \o write_text_element("scale", FloatToString(label_style.scale))
    \o <<End("LabelStyle")>>

(* mutant: the id is written as a child text element, not as an attribute *)
write_line_style_id_as_child(line_style) ==
    <<Start("LineStyle", <<>>)>>
    \o write_text_element("id", line_style.id)
    \o write_text_element("color", line_style.color)
    \o write_text_element("colorMode", ColorModeToString(line_style.color_mode))
    \o write_text_element("width", FloatToString(line_style.width))
    \o <<End("LineStyle")>>

write_line_style(line_style) ==
    <<Start("LineStyle", <<<<"id", line_style.id>>>>)>>
    \o write_text_element("color", line_style.color)
    \o write_text_element("colorMode", ColorModeToString(line_style.color_mode))
    \o write_text_element("width", FloatToString(line_style.width))
    \o <<End("LineStyle")>>

write_poly_style(poly_style) ==
    <<Start("PolyStyle", <<<<"id", poly_style.id>>>>)>>
    \o write_text_element("color", poly_style.color)
    \o write_text_element("colorMode", ColorModeToString(poly_style.color_mode))
    \o write_text_element("fill", BoolToString(poly_style.fill))
    \o write_text_element("outline", BoolToString(poly_style.outline))
    \o <<End("PolyStyle")>>

write_list_style(list_style) ==
    <<Start("ListStyle", <<<<"id", list_style.id>>>>)>>
    \o write_text_element("bgColor", list_style.bg_color)
    \o write_text_element("maxSnippetLines", ToString(list_style.max_snippet_lines))
    \o <<End("ListStyle")>>

write_style(style) ==
    <<Start("Style", <<<<"id", style.id>>>>)>>
    \o (IF style.balloon.some THEN write_balloon_style(style.balloon.v) ELSE <<>>)
    \o (IF style.icon.some THEN write_icon_style(style.icon.v) ELSE <<>>)
    \o (IF style.label.some THEN write_label_style(style.label.v) ELSE <<>>)
    \o (IF style.line.some THEN write_line_style(style.line.v) ELSE <<>>)
    \o (IF style.poly.some THEN write_poly_style(style.poly.v) ELSE <<>>)
    \o (IF style.list.some THEN write_list_style(style.list.v) ELSE <<>>)
    \o <<End("Style")>>

write_style_map(style_map) ==
    <<Start("StyleMap", <<<<"id", style_map.id>>>>)>>
    \o Flatten([i \in 1..Len(style_map.pairs) |-> write_pair(style_map.pairs[i])])
    \o <<End("StyleMap")>>

(* mutant: viewRefreshTime written before viewRefreshMode *)
write_link_type_icon_misordered(icon) ==
    <<Start("Icon", hash_map_as_attrs(icon.attrs))>>
    \o (IF icon.href.some THEN write_text_element("href", icon.href.v) ELSE <<>>)
    \o (IF icon.refresh_mode.some
        THEN write_text_element("refreshMode", RefreshModeToString(icon.refresh_mode.v))
        ELSE <<>>)
    \o write_text_element("refreshInterval", FloatToString(icon.refresh_interval))
    \o write_text_element("viewRefreshTime", FloatToString(icon.view_refresh_time))
    \o (IF icon.view_refresh_mode.some
        THEN write_text_element("viewRefreshMode",
                                ViewRefreshModeToString(icon.view_refresh_mode.v))
        ELSE <<>>)
    \o write_text_element("viewBoundScale", FloatToString(icon.view_bound_scale))
    \o (IF icon.view_format.some
        THEN write_text_element("viewFormat", icon.view_format.v) ELSE <<>>)
    \o (IF icon.http_query.some
        THEN write_text_element("httpQuery", icon.http_query.v) ELSE <<>>)
    \o <<End("Icon")>>

write_link_type_icon(icon) ==
    <<Start("Icon", hash_map_as_attrs(icon.attrs))>>
    \o (IF icon.href.some THEN write_text_element("href", icon.href.v) ELSE <<>>)
    \o (IF icon.refresh_mode.some
        THEN write_text_element("refreshMode", RefreshModeToString(icon.refresh_mode.v))
        ELSE <<>>)
    \o write_text_element("refreshInterval", FloatToString(icon.refresh_interval))
    \o (IF icon.view_refresh_mode.some
        THEN write_text_element("viewRefreshMode",
                                ViewRefreshModeToString(icon.view_refresh_mode.v))
        ELSE <<>>)
    \o write_text_element("viewRefreshTime", FloatToString(icon.view_refresh_time))
    \o write_text_element("viewBoundScale", FloatToString(icon.view_bound_scale))
    \o (IF icon.view_format.some
        THEN write_text_element("viewFormat", icon.view_format.v) ELSE <<>>)
    \o (IF icon.http_query.some
        THEN write_text_element("httpQuery", icon.http_query.v) ELSE <<>>)
    \o <<End("Icon")>>

(* mutant: an absent refreshMode is written with the schema default *)
write_link_refresh_mode_defaulted(link) ==
    <<Start("Link", hash_map_as_attrs(link.attrs))>>
    \o (IF link.href.some THEN write_text_element("href", link.href.v) ELSE <<>>)
    \o write_text_element("refreshMode",
            IF link.refresh_mode.some THEN RefreshModeToString(link.refresh_mode.v)
            ELSE "onChange")
    \o write_text_element("refreshInterval", FloatToString(link.refresh_interval))
    \o (IF link.view_refresh_mode.some
        THEN write_text_element("viewRefreshMode",
                                ViewRefreshModeToString(link.view_refresh_mode.v))
        ELSE <<>>)
    \o write_text_element("viewRefreshTime", FloatToString(link.view_refresh_time))
    \o write_text_element("viewBoundScale", FloatToString(link.view_bound_scale))
    \o (IF link.view_format.some
        THEN write_text_element("viewFormat", link.view_format.v) ELSE <<>>)
    \o (IF link.http_query.some
        THEN write_text_element("httpQuery", link.http_query.v) ELSE <<>>)
    \o <<End("Link")>>

write_link(link) ==
    <<Start("Link", hash_map_as_attrs(link.attrs))>>
    \o (IF link.href.some THEN write_text_element("href", link.href.v) ELSE <<>>)
    \o (IF link.refresh_mode.some
        THEN write_text_element("refreshMode", RefreshModeToString(link.refresh_mode.v))
        ELSE <<>>)
    \o write_text_element("refreshInterval", FloatToString(link.refresh_interval))
    \o (IF link.view_refresh_mode.some
        THEN write_text_element("viewRefreshMode",
                                ViewRefreshModeToString(link.view_refresh_mode.v))
        ELSE <<>>)
    \o write_text_element("viewRefreshTime", FloatToString(link.view_refresh_time))
    \o write_text_element("viewBoundScale", FloatToString(link.view_bound_scale))
    \o (IF link.view_format.some
        THEN write_text_element("viewFormat", link.view_format.v) ELSE <<>>)
    \o (IF link.http_query.some
        THEN write_text_element("httpQuery", link.http_query.v) ELSE <<>>)
    \o <<End("Link")>>

(* mutant: sourceHref written before targetHref *)
write_alias_source_first(alias) ==
    <<Start("Alias", hash_map_as_attrs(alias.attrs))>>
    \o (IF alias.source_href.some
        THEN write_text_element("sourceHref", alias.source_href.v) ELSE <<>>)
    \o (IF alias.target_href.some
        THEN write_text_element("targetHref", alias.target_href.v) ELSE <<>>)
    \o <<End("Alias")>>

write_alias(alias) ==
    <<Start("Alias", hash_map_as_attrs(alias.attrs))>>
    \o (IF alias.target_href.some
        THEN write_text_element("targetHref", alias.target_href.v) ELSE <<>>)
    \o (IF alias.source_href.some
        THEN write_text_element("sourceHref", alias.source_href.v) ELSE <<>>)
    \o <<End("Alias")>>

write_resource_map(resource_map) ==
    <<Start("ResourceMap", hash_map_as_attrs(resource_map.attrs))>>
    \o Flatten([i \in 1..Len(resource_map.aliases) |-> write_alias(resource_map.aliases[i])])
    \o <<End("ResourceMap")>>

(* mutant: a value equal to an earlier one of the list is not written again *)
write_simple_array_data_deduplicated(simple_array_data) ==
    LET vs == simple_array_data.values
        firsts == SortedSeq({i \in 1..Len(vs) : \A j \in 1..(i - 1) : vs[j] # vs[i]})
    IN <<Start("SimpleArrayData", hash_map_as_attrs(simple_array_data.attrs))>>
       \o Flatten([k \in 1..Len(firsts) |-> write_text_element("value", vs[firsts[k]])])
       \o <<End("SimpleArrayData")>>

write_simple_array_data(simple_array_data) ==
    <<Start("SimpleArrayData", hash_map_as_attrs(simple_array_data.attrs))>>
    \o Flatten([i \in 1..Len(simple_array_data.values) |->
                    write_text_element("value", simple_array_data.values[i])])
    \o <<End("SimpleArrayData")>>

write_simple_data(simple_data) ==
    <<Start("SimpleData", hash_map_as_attrs(simple_data.attrs)),
      Raw(simple_data.value),
      End("SimpleData")>>

write_schema_data(schema_data) ==
    <<Start("SchemaData", hash_map_as_attrs(schema_data.attrs))>>
    \o Flatten([i \in 1..Len(schema_data.data) |-> write_simple_data(schema_data.data[i])])
    \o Flatten([i \in 1..Len(schema_data.arrays) |->
                    write_simple_array_data(schema_data.arrays[i])])
    \o <<End("SchemaData")>>

RECURSIVE write_kml(_)
(* mutant: the children are written last to first *)
write_container_reversed(tag, attrs, elements) ==
    <<Start(tag, hash_map_as_attrs(attrs))>>
    \o Flatten([i \in 1..Len(elements) |-> write_kml(elements[Len(elements) + 1 - i])])
    \o <<End(tag)>>

write_container(tag, attrs, elements) ==
    <<Start(tag, hash_map_as_attrs(attrs))>>
    \o Flatten([i \in 1..Len(elements) |-> write_kml(elements[i])])
    \o <<End(tag)>>

write_kml(k) ==
    CASE k.kind = "KmlDocument" -> write_container("kml", k.attrs, k.elements)
      [] k.kind = "Scale" -> write_scale(k)
      [] k.kind = "Orientation" -> write_orientation(k)
      [] k.kind = "Point" -> write_point(k)
      [] k.kind = "Location" -> write_location(k)
      [] k.kind = "LineString" -> write_line_string(k)
      [] k.kind = "LinearRing" -> write_linear_ring(k)
      [] k.kind = "Polygon" -> write_polygon(k)
      [] k.kind = "MultiGeometry" -> write_multi_geometry(k)
      [] k.kind = "Placemark" -> write_placemark(k)
      [] k.kind = "Style" -> write_style(k)
      [] k.kind = "StyleMap" -> write_style_map(k)
      [] k.kind = "Pair" -> write_pair(k)
      [] k.kind = "BalloonStyle" -> write_balloon_style(k)
      [] k.kind = "IconStyle" -> write_icon_style(k)
      [] k.kind = "Icon" -> write_icon(k)
      [] k.kind = "LabelStyle" -> write_label_style(k)
      [] k.kind = "LineStyle" -> write_line_style(k)
      [] k.kind = "PolyStyle" -> write_poly_style(k)
      [] k.kind = "ListStyle" -> write_list_style(k)
      [] k.kind = "LinkTypeIcon" -> write_link_type_icon(k)
      [] k.kind = "Link" -> write_link(k)
      [] k.kind = "ResourceMap" -> write_resource_map(k)
      [] k.kind = "Alias" -> write_alias(k)
      [] k.kind = "SchemaData" -> write_schema_data(k)
      [] k.kind = "SimpleArrayData" -> write_simple_array_data(k)
      [] k.kind = "SimpleData" -> write_simple_data(k)
      [] k.kind = "Document" -> write_container("Document", k.attrs, k.elements)
      [] k.kind = "Folder" -> write_container("Folder", k.attrs, k.elements)
      [] k.kind = "Element" -> write_element(k)

---------------------------------------------------------------------------
(* The trees the encoder is run on: every Kml variant, fields drawn from   *)
(* small sets, lists up to the bounds above.                               *)

Strs == {"a", "R&D"}
Ids == {"", "sid"}
Hrefs == {"/path/to/local/resource"}

(* attribute mappings: all of them, and the two ends (empty, all keys in every order) *)
FullMaps == {m \in HashMaps : Len(m) \in {0, Cardinality(AttrKeys)}}
SomeMaps == {EmptyMap, <<<<"id", AttrVal("id")>>>>}

Coords == {Coord(-15, 10, z) : z \in Opt({0})}
RingCoords == {Coord(-10, 20, Some(0)), Coord(-15, 30, Some(0)), Coord(10, 10, None)}
CoordSeqs == SeqsBetween(RingCoords, 0, MaxCoords)

(* the attribute mappings of Point and of Placemark, which write_point and
   write_placemark never read *)
PointAttrs == FullMaps
PlacemarkAttrs == SomeMaps

Points ==
    {[kind |-> "Point", coord |-> c, extrude |-> e, altitude_mode |-> a, attrs |-> m] :
        c \in Coords, e \in BOOLEAN, a \in AltitudeModes, m \in PointAttrs}

LineStrings ==
    {[kind |-> "LineString", coords |-> cs, extrude |-> e, tessellate |-> t,
      altitude_mode |-> a] :
        cs \in CoordSeqs, e \in BOOLEAN, t \in BOOLEAN, a \in {"ClampToGround"}}

LinearRings ==
    {[kind |-> "LinearRing", coords |-> cs, extrude |-> e, tessellate |-> t,
      altitude_mode |-> a] :
        cs \in CoordSeqs, e \in BOOLEAN, t \in BOOLEAN, a \in {"ClampToGround"}}

(* rings used inside polygons *)
RingOf(cs, t) == [kind |-> "LinearRing", coords |-> cs, extrude |-> FALSE, tessellate |-> t,
                  altitude_mode |-> "ClampToGround"]
OuterRings ==
    {RingOf(cs, t) : cs \in {<<>>, <<Coord(-10, 20, Some(0)), Coord(-15, 30, Some(0))>>},
                     t \in BOOLEAN}
InnerRings == {RingOf(<<Coord(10, 10, None)>>, FALSE),
               RingOf(<<Coord(0, 0, None), Coord(10, 0, None)>>, TRUE)}

Polygons ==
    {[kind |-> "Polygon", outer |-> o, inner |-> i, extrude |-> e, tessellate |-> FALSE,
      altitude_mode |-> "ClampToGround", attrs |-> m] :
        o \in OuterRings, i \in SeqsBetween(InnerRings, 0, MaxInner), e \in {TRUE},
        m \in SomeMaps}

ElementLeaves ==
    {[kind |-> "Element", name |-> n, attrs |-> m, content |-> c, children |-> <<>>] :
        n \in {"gx:ext"}, m \in SomeMaps, c \in Opt({"a"})}
ElementPool == {e \in ElementLeaves : e.attrs = EmptyMap}

Elements ==
    {[kind |-> "Element", name |-> "vendor", attrs |-> m, content |-> c, children |-> <<>>] :
        m \in HashMaps, c \in Opt(Strs)}
    \cup
    {[kind |-> "Element", name |-> "vendor", attrs |-> EmptyMap, content |-> c, children |-> ch] :
        c \in Opt({"a"}), ch \in SeqsBetween(ElementPool, 1, MaxChildren)}

APoint == [kind |-> "Point", coord |-> Coord(10, 10, Some(10)), extrude |-> FALSE,
           altitude_mode |-> "RelativeToGround", attrs |-> EmptyMap]
ALineString == [kind |-> "LineString", coords |-> <<Coord(10, 10, None)>>, extrude |-> TRUE,
                tessellate |-> TRUE, altitude_mode |-> "Absolute"]
APolygon == [kind |-> "Polygon",
             outer |-> [kind |-> "LinearRing", coords |-> <<Coord(-10, 20, Some(0))>>,
                        extrude |-> FALSE, tessellate |-> TRUE,
                        altitude_mode |-> "ClampToGround"],
             inner |-> <<>>, extrude |-> FALSE, tessellate |-> FALSE,
             altitude_mode |-> "ClampToGround", attrs |-> EmptyMap]
(* a Geometry variant write_geometry has no arm for *)
UncoveredGeometry == [kind |-> "Element", name |-> "gx:Track", attrs |-> EmptyMap,
                      content |-> None, children |-> <<>>]
InnerMultiGeometry == [kind |-> "MultiGeometry", geometries |-> <<ALineString>>,
                       attrs |-> EmptyMap]
GeometryPool == {APoint, APolygon, UncoveredGeometry, InnerMultiGeometry}
ALinearRing == [kind |-> "LinearRing", coords |-> <<Coord(-10, 20, Some(0))>>,
                extrude |-> FALSE, tessellate |-> TRUE, altitude_mode |-> "ClampToGround"]
LineGeometryPool == {ALineString, ALinearRing, UncoveredGeometry}

MultiGeometries ==
    {[kind |-> "MultiGeometry", geometries |-> gs, attrs |-> m] :
        gs \in SeqsBetween(GeometryPool, 0, MaxChildren), m \in SomeMaps}
    \cup
    {[kind |-> "MultiGeometry", geometries |-> gs, attrs |-> EmptyMap] :
        gs \in SeqsBetween(LineGeometryPool, 1, MaxChildren)}

(* child Elements of a Placemark: with an attribute and text, bare, with a child *)
PlacemarkChildPool ==
    {[kind |-> "Element", name |-> "gx:ext", attrs |-> <<<<"id", AttrVal("id")>>>>,
      content |-> Some("a"), children |-> <<>>],
     [kind |-> "Element", name |-> "gx:ext", attrs |-> EmptyMap, content |-> None,
      children |-> <<>>],
     [kind |-> "Element", name |-> "vendor", attrs |-> EmptyMap, content |-> Some("a"),
      children |-> <<[kind |-> "Element", name |-> "gx:ext", attrs |-> EmptyMap,
                      content |-> Some("a"), children |-> <<>>]>>]}

Placemarks ==
    {[kind |-> "Placemark", name |-> n, description |-> d, children |-> ch,
      geometry |-> g, attrs |-> m] :
        n \in Opt({"a"}), d \in Opt({"R&D"}),
        ch \in SeqsBetween({e \in ElementPool : e.content.some}, 0, MaxChildren),
        g \in Opt({APoint, APolygon, UncoveredGeometry}), m \in PlacemarkAttrs}
    \cup
    {[kind |-> "Placemark", name |-> n, description |-> None, children |-> ch,
      geometry |-> g, attrs |-> EmptyMap] :
        n \in Opt({"a"}), ch \in SeqsBetween(PlacemarkChildPool, 1, MaxChildren),
        g \in Opt({APoint})}

LinkFields ==
    {[attrs |-> m, href |-> h, refresh_mode |-> rm, refresh_interval |-> ri,
      view_refresh_mode |-> vm, view_refresh_time |-> 40, view_bound_scale |-> 10,
      view_format |-> vf, http_query |-> hq] :
        m \in SomeMaps, h \in Opt(Hrefs), rm \in Opt({"OnChange"}), ri \in {40},
        vm \in Opt({"OnStop"}), vf \in Opt({"a"}), hq \in Opt({"a"})}
WithKind(r, kind) == [x \in {"kind"} \cup DOMAIN r |-> IF x = "kind" THEN kind ELSE r[x]]
Links == {WithKind(r, "Link") : r \in LinkFields}
LinkTypeIcons == {WithKind(r, "LinkTypeIcon") : r \in LinkFields}
(* Link::default() *)
DefaultLink ==
    [kind |-> "Link", attrs |-> EmptyMap, href |-> None, refresh_mode |-> None,
     refresh_interval |-> 40, view_refresh_mode |-> None, view_refresh_time |-> 40,
     view_bound_scale |-> 10, view_format |-> None, http_query |-> None]

Scales ==
    {[kind |-> "Scale", x |-> x, y |-> y, z |-> z] :
        x \in Floats, y \in {20, 10}, z \in {10, 35}}
Orientations ==
    {[kind |-> "Orientation", roll |-> r, tilt |-> t, heading |-> h] :
        r \in Floats, t \in {0, 35}, h \in {0, 10}}
Locations ==
    {[kind |-> "Location", longitude |-> lo, latitude |-> la, altitude |-> al] :
        lo \in Floats, la \in {0, -15}, al \in {0, 35}}

Icons == {[kind |-> "Icon", href |-> h] : h \in Hrefs \cup {"a"}}
Pairs ==
    {[kind |-> "Pair", key |-> k, style_url |-> "#sid", attrs |-> m] :
        k \in {"normal", "highlight"}, m \in SomeMaps}
BalloonStyles ==
    {[kind |-> "BalloonStyle", id |-> i, bg_color |-> bg, text_color |-> "ff000000",
      text |-> t, display |-> d] :
        i \in Ids, bg \in Opt({"ffffffff"}), t \in Opt({"a"}), d \in BOOLEAN}
HotSpots == {[x |-> 0, y |-> 35, xunits |-> "Fraction", yunits |-> "Pixels"]}
IconStyles ==
    {[kind |-> "IconStyle", id |-> i, scale |-> 10, heading |-> 0, hot_spot |-> hs,
      icon |-> ic, color |-> "ffffffff", color_mode |-> cm] :
        i \in Ids, hs \in Opt(HotSpots), ic \in Icons, cm \in ColorModes}
LabelStyles ==
    {[kind |-> "LabelStyle", id |-> i, color |-> "ffffffff", color_mode |-> cm,
      scale |-> sc] : i \in Ids, cm \in ColorModes, sc \in {10, 35}}
LineStyles ==
    {[kind |-> "LineStyle", id |-> i, color |-> "ffffffff", color_mode |-> cm,
      width |-> w] : i \in Ids, cm \in ColorModes, w \in {10, 35}}
PolyStyles ==
    {[kind |-> "PolyStyle", id |-> i, color |-> "ffffffff", color_mode |-> cm,
      fill |-> f, outline |-> o] :
        i \in Ids, cm \in ColorModes, f \in BOOLEAN, o \in BOOLEAN}
ListStyles ==
    {[kind |-> "ListStyle", id |-> i, bg_color |-> "ffffffff", max_snippet_lines |-> n] :
        i \in Ids, n \in {2, 10}}
Styles ==
    {[kind |-> "Style", id |-> i, balloon |-> b, icon |-> ic, label |-> la, line |-> li,
      poly |-> po, list |-> ls] :
        i \in {"sid"},
        b \in Opt({x \in BalloonStyles : x.id = "" /\ x.display /\ ~x.bg_color.some /\ ~x.text.some}),
        ic \in Opt({x \in IconStyles : x.id = "" /\ ~x.hot_spot.some /\ x.icon.href = "a"
                                       /\ x.color_mode = "Default"}),
        la \in Opt({x \in LabelStyles : x.id = "sid" /\ x.color_mode = "Default" /\ x.scale = 10}),
        li \in Opt({x \in LineStyles : x.id = "" /\ x.color_mode = "Default" /\ x.width = 10}),
        po \in Opt({x \in PolyStyles : x.id = "" /\ x.color_mode = "Default" /\ x.fill /\ ~x.outline}),
        ls \in Opt({x \in ListStyles : x.id = "" /\ x.max_snippet_lines = 2})}
StyleMaps ==
    {[kind |-> "StyleMap", id |-> i, pairs |-> ps] :
        i \in Ids, ps \in SeqsBetween({p \in Pairs : p.attrs = EmptyMap}, 0, MaxChildren)}

Aliases ==
    {[kind |-> "Alias", target_href |-> t, source_href |-> s, attrs |-> m] :
        t \in Opt({"../images/foo.jpg"}), s \in Opt({"in-geometry-file/foo.jpg"}),
        m \in SomeMaps}
ResourceMaps ==
    {[kind |-> "ResourceMap", aliases |-> as, attrs |-> m] :
        as \in SeqsBetween({a \in Aliases : a.attrs = EmptyMap}, 0, MaxChildren),
        m \in SomeMaps}
SimpleDatas ==
    {[kind |-> "SimpleData", value |-> v, attrs |-> m] : v \in Strs, m \in SomeMaps}
SimpleArrayDatas ==
    {[kind |-> "SimpleArrayData", values |-> vs, attrs |-> m] :
        vs \in SeqsBetween({"86", "113"}, 0, MaxChildren), m \in SomeMaps}
SchemaDatas ==
    {[kind |-> "SchemaData", data |-> d, arrays |-> a, attrs |-> m] :
        d \in SeqsBetween({x \in SimpleDatas : x.attrs = EmptyMap /\ x.value = "a"}, 0, 1),
        a \in SeqsBetween({x \in SimpleArrayDatas : x.attrs = EmptyMap /\ x.values = <<"86">>},
                          0, 1),
        m \in SomeMaps}
    \cup
    {[kind |-> "SchemaData", data |-> d, arrays |-> a, attrs |-> EmptyMap] :
        d \in SeqsBetween({x \in SimpleDatas : x.attrs = EmptyMap}, 0, MaxChildren),
        a \in SeqsBetween({x \in SimpleArrayDatas :
                                x.attrs = EmptyMap /\ x.values \in {<<"86">>, <<"113", "113">>}},
                          0, MaxChildren)}

(* children of containers: leaves of several kinds and one nested container *)
AFolder == [kind |-> "Folder", attrs |-> EmptyMap, elements |-> <<APoint>>]
ChildPool == {APoint, AFolder,
              [kind |-> "Placemark", name |-> Some("a"), description |-> None,
               children |-> <<>>, geometry |-> Some(ALineString), attrs |-> EmptyMap]}
ContainerKinds == {"KmlDocument", "Document", "Folder"}
Containers ==
    {[kind |-> k, attrs |-> m, elements |-> es] :
        k \in ContainerKinds, m \in FullMaps, es \in {<<>>, <<APoint>>}}
    \cup
    {[kind |-> k, attrs |-> EmptyMap, elements |-> es] :
        k \in ContainerKinds, es \in SeqsBetween(ChildPool, 0, MaxChildren)}

(* containers whose children are nodes of further variants *)
MixedChildPool ==
    {[kind |-> "Scale", x |-> 35, y |-> 20, z |-> 10],
     [kind |-> "SimpleData", value |-> "a", attrs |-> EmptyMap],
     [kind |-> "LabelStyle", id |-> "sid", color |-> "ffffffff", color_mode |-> "Default",
      scale |-> 10]}
MixedContainers ==
    {[kind |-> "Document", attrs |-> EmptyMap, elements |-> es] :
        es \in SeqsBetween(MixedChildPool, 1, MaxChildren)}

KmlTrees ==
    Points \cup LineStrings \cup LinearRings \cup Polygons \cup MultiGeometries
    \cup Placemarks \cup Elements \cup Links \cup LinkTypeIcons \cup Scales
    \cup Orientations \cup Locations \cup Icons \cup Pairs \cup BalloonStyles
    \cup IconStyles \cup LabelStyles \cup LineStyles \cup PolyStyles \cup ListStyles
    \cup Styles \cup StyleMaps \cup Aliases \cup ResourceMaps \cup SimpleDatas
    \cup SimpleArrayDatas \cup SchemaDatas \cup Containers \cup MixedContainers

---------------------------------------------------------------------------
(* quick_xml::Writer: the bytes each accepted write puts into the sink.    *)
(* Event::Text and attribute values are entity-escaped, Writer::write is   *)
(* not.  Escape is the escaping restricted to the strings of the model.    *)

Escape(s) == IF s = "R&D" THEN "R&amp;D" ELSE s

AttrBytes(attrs) ==
    JoinWith([i \in 1..Len(attrs) |->
                " " \o attrs[i][1] \o "=\"" \o Escape(attrs[i][2]) \o "\""], "")

EventBytes(e) ==
    CASE e.t = "Start" -> "<" \o e.name \o AttrBytes(e.attrs) \o ">"
      [] e.t = "End" -> "</" \o e.name \o ">"
      [] e.t = "Text" -> Escape(e.text)
      [] e.t = "Raw" -> e.text
      [] OTHER -> ""

XmlBytes(events) == JoinWith([i \in 1..Len(events) |-> EventBytes(events[i])], "")

---------------------------------------------------------------------------
(* The decoder, after section 4.3 of the specification: a stack of element *)
(* builders driven by Start / Text / End; End finalizes the top builder    *)
(* into a node, every field never observed taking its default.             *)
(* Attribute mappings are compared as HashMaps are: by their pairs.        *)

KeyRank(k) == CHOOSE r \in 1..Len(AttrKeyList) : AttrKeyList[r] = k
(* the pairs of a mapping in one fixed order, so that equal maps are equal values *)
SortMap(m) ==
    LET ranks == SortedSeq({KeyRank(m[i][1]) : i \in 1..Len(m)})
    IN [r \in 1..Len(ranks) |->
            m[CHOOSE i \in 1..Len(m) : KeyRank(m[i][1]) = ranks[r]]]

TreeFields == {"children", "elements", "geometries", "inner"}
RECURSIVE Norm(_)
Norm(n) ==
    [f \in DOMAIN n |->
        IF f = "attrs" THEN SortMap(n[f])
        ELSE IF f \in TreeFields THEN [i \in 1..Len(n[f]) |-> Norm(n[f][i])]
        ELSE IF f = "outer" THEN Norm(n[f])
        ELSE IF f = "geometry" THEN (IF n[f].some THEN Some(Norm(n[f].v)) ELSE None)
        ELSE n[f]]

ErrorNode == [kind |-> "Error"]
GeometryKinds == {"Point", "LineString", "LinearRing", "Polygon", "MultiGeometry"}

(* text to value, the inverse of the text forms above; an unknown token is an error *)
CoordUniverse == Coords \cup RingCoords
                 \cup {Coord(10, 10, Some(10)), Coord(10, 10, None), Coord(0, 0, None),
                       Coord(10, 0, None)}
ParseBool(s) == CASE s = "1" -> Some(TRUE) [] s = "0" -> Some(FALSE) [] OTHER -> None
ParseAltitudeMode(s) ==
    IF \E m \in AltitudeModes : AltitudeModeToString(m) = s
    THEN Some(CHOOSE m \in AltitudeModes : AltitudeModeToString(m) = s) ELSE None
ParseRefreshMode(s) ==
    IF \E m \in RefreshModes : RefreshModeToString(m) = s
    THEN Some(CHOOSE m \in RefreshModes : RefreshModeToString(m) = s) ELSE None
ParseViewRefreshMode(s) ==
    IF \E m \in ViewRefreshModes : ViewRefreshModeToString(m) = s
    THEN Some(CHOOSE m \in ViewRefreshModes : ViewRefreshModeToString(m) = s) ELSE None
ParseFloat(s) ==
    IF \E f \in Floats \cup {40} : FloatToString(f) = s
    THEN Some(CHOOSE f \in Floats \cup {40} : FloatToString(f) = s) ELSE None
CoordsText(cs) == JoinWith([i \in 1..Len(cs) |-> CoordToString(cs[i])], "\n")
ParseCoords(s) ==
    IF \E cs \in SeqsBetween(CoordUniverse, 0, MaxCoords) : CoordsText(cs) = s
    THEN Some(CHOOSE cs \in SeqsBetween(CoordUniverse, 0, MaxCoords) : CoordsText(cs) = s)
    ELSE None

(* the child named tag, if any, and the text of a sub-field, with its default *)
HasChild(b, tag) ==
    \E i \in 1..Len(b.children) :
        b.children[i].kind = "Element" /\ b.children[i].name = tag
ChildNamed(b, tag) ==
    b.children[CHOOSE i \in 1..Len(b.children) :
                    /\ b.children[i].kind = "Element" /\ b.children[i].name = tag
                    /\ \A j \in 1..(i - 1) :
                        ~(b.children[j].kind = "Element" /\ b.children[j].name = tag)]
ContentText(e) == IF e.content.some THEN e.content.v ELSE ""
FieldText(b, tag, default) ==
    IF HasChild(b, tag) THEN ContentText(ChildNamed(b, tag)) ELSE default
OptField(b, tag) ==
    IF HasChild(b, tag) THEN Some(ContentText(ChildNamed(b, tag))) ELSE None
OfKinds(nodes, kinds) == SelectSeq(nodes, LAMBDA n : n.kind \in kinds)

FinalizePoint(b) ==
    LET cs == ParseCoords(FieldText(b, "coordinates", "0,0"))
        e == ParseBool(FieldText(b, "extrude", "0"))
        a == ParseAltitudeMode(FieldText(b, "altitudeMode", "clampToGround"))
    IN IF cs.some /\ e.some /\ a.some /\ Len(cs.v) = 1
       THEN [kind |-> "Point", coord |-> cs.v[1], extrude |-> e.v, altitude_mode |-> a.v,
             attrs |-> b.attrs]
       ELSE ErrorNode

FinalizeLine(b, kind) ==
    LET cs == ParseCoords(FieldText(b, "coordinates", ""))
        e == ParseBool(FieldText(b, "extrude", "0"))
        t == ParseBool(FieldText(b, "tessellate", "0"))
        a == ParseAltitudeMode(FieldText(b, "altitudeMode", "clampToGround"))
    IN IF cs.some /\ e.some /\ t.some /\ a.some
       THEN [kind |-> kind, coords |-> cs.v, extrude |-> e.v, tessellate |-> t.v,
             altitude_mode |-> a.v]
       ELSE ErrorNode

FinalizePolygon(b) ==
    LET e == ParseBool(FieldText(b, "extrude", "0"))
        t == ParseBool(FieldText(b, "tessellate", "0"))
        a == ParseAltitudeMode(FieldText(b, "altitudeMode", "clampToGround"))
        outers == IF HasChild(b, "outerBoundaryIs")
                  THEN OfKinds(ChildNamed(b, "outerBoundaryIs").children, {"LinearRing"})
                  ELSE <<>>
        inners == Flatten([i \in 1..Len(b.children) |->
                    IF b.children[i].kind = "Element" /\ b.children[i].name = "innerBoundaryIs"
                    THEN OfKinds(b.children[i].children, {"LinearRing"}) ELSE <<>>])
    IN IF e.some /\ t.some /\ a.some /\ Len(outers) = 1
       THEN [kind |-> "Polygon", outer |-> outers[1], inner |-> inners, extrude |-> e.v,
             tessellate |-> t.v, altitude_mode |-> a.v, attrs |-> b.attrs]
       ELSE ErrorNode

FinalizePlacemark(b) ==
    LET gs == OfKinds(b.children, GeometryKinds)
    IN [kind |-> "Placemark", name |-> OptField(b, "name"),
        description |-> OptField(b, "description"),
        children |-> SelectSeq(b.children,
                        LAMBDA n : n.kind = "Element" /\ n.name \notin {"name", "description"}),
        geometry |-> IF gs = <<>> THEN None ELSE Some(gs[1]),
        attrs |-> b.attrs]

FinalizeLink(b, kind) ==
    LET rm == OptField(b, "refreshMode")
        vm == OptField(b, "viewRefreshMode")
        ri == ParseFloat(FieldText(b, "refreshInterval", "4"))
        vt == ParseFloat(FieldText(b, "viewRefreshTime", "4"))
        vs == ParseFloat(FieldText(b, "viewBoundScale", "1"))
    IN IF /\ ri.some /\ vt.some /\ vs.some
          /\ rm.some => ParseRefreshMode(rm.v).some
          /\ vm.some => ParseViewRefreshMode(vm.v).some
       THEN [kind |-> kind, attrs |-> b.attrs, href |-> OptField(b, "href"),
             refresh_mode |-> IF rm.some THEN ParseRefreshMode(rm.v) ELSE None,
             refresh_interval |-> ri.v,
             view_refresh_mode |-> IF vm.some THEN ParseViewRefreshMode(vm.v) ELSE None,
             view_refresh_time |-> vt.v, view_bound_scale |-> vs.v,
             view_format |-> OptField(b, "viewFormat"),
             http_query |-> OptField(b, "httpQuery")]
       ELSE ErrorNode

(* b: the popped builder [name, attrs, text, children], children already finalized *)
Finalize(b) ==
    IF \E i \in 1..Len(b.children) : b.children[i] = ErrorNode THEN ErrorNode
    ELSE CASE b.name = "Point" -> FinalizePoint(b)
           [] b.name = "LineString" -> FinalizeLine(b, "LineString")
           [] b.name = "LinearRing" -> FinalizeLine(b, "LinearRing")
           [] b.name = "Polygon" -> FinalizePolygon(b)
           [] b.name = "MultiGeometry" ->
                [kind |-> "MultiGeometry", geometries |-> OfKinds(b.children, GeometryKinds),
                 attrs |-> b.attrs]
           [] b.name = "Placemark" -> FinalizePlacemark(b)
           [] b.name = "Link" -> FinalizeLink(b, "Link")
           [] b.name = "Icon" -> FinalizeLink(b, "LinkTypeIcon")
           [] b.name = "kml" ->
                [kind |-> "KmlDocument", attrs |-> b.attrs, elements |-> b.children]
           [] b.name \in {"Document", "Folder"} ->
                [kind |-> b.name, attrs |-> b.attrs, elements |-> b.children]
           [] OTHER ->
                [kind |-> "Element", name |-> b.name, attrs |-> b.attrs,
                 content |-> IF b.text = "" THEN None ELSE Some(b.text),
                 children |-> b.children]

(* the tokenizer hands text over entity-unescaped; bytes that were written
   unescaped and hold a bare "&" are malformed *)
Malformed(e) == e.t = "Raw" /\ Escape(e.text) # e.text

RECURSIVE DecodeFrom(_, _, _)
DecodeFrom(evs, i, stack) ==
    IF i > Len(evs) THEN [ok |-> FALSE, tree |-> ErrorNode]
    ELSE IF evs[i].t = "Start"
         THEN DecodeFrom(evs, i + 1,
                Append(stack, [name |-> evs[i].name, attrs |-> evs[i].attrs, text |-> "",
                               children |-> <<>>]))
    ELSE IF stack = <<>> \/ Malformed(evs[i]) THEN [ok |-> FALSE, tree |-> ErrorNode]
    ELSE IF evs[i].t = "End"
         THEN LET node == Finalize(stack[Len(stack)])
                  rest == SubSeq(stack, 1, Len(stack) - 1)
              IN IF stack[Len(stack)].name # evs[i].name
                 THEN [ok |-> FALSE, tree |-> ErrorNode]
                 ELSE IF rest = <<>> THEN [ok |-> node # ErrorNode, tree |-> node]
                 ELSE DecodeFrom(evs, i + 1,
                        [rest EXCEPT ![Len(rest)].children = Append(@, node)])
    ELSE DecodeFrom(evs, i + 1, [stack EXCEPT ![Len(stack)].text = @ \o evs[i].text])

decode(evs) == DecodeFrom(evs, 1, <<>>)

---------------------------------------------------------------------------
(* The sink: it accepts every write, or refuses the one after `limit`. *)

Sinks == {[limit |-> None]} \cup {[limit |-> Some(n)] : n \in 0..MaxSinkWrites}

(* index of the first Err the encoder returns by itself, Len + 1 if none *)
FirstErr(steps) ==
    IF \E i \in 1..Len(steps) : steps[i] = ErrStep
    THEN CHOOSE i \in 1..Len(steps) :
            steps[i] = ErrStep /\ \A j \in 1..(i - 1) : steps[j] # ErrStep
    ELSE Len(steps) + 1

Remember(history, bytes) ==
    IF Len(history) < MaxRuns THEN Append(history, bytes)
    ELSE Append(Tail(history), bytes)

Init ==
    /\ kml \in KmlTrees
    /\ buf = <<>>
    /\ res = "None"
    /\ sinkFailed = FALSE
    /\ outs = <<>>
    /\ str = None
    /\ decoded = None

(* what one encode does with a sink, given the writes the encoder issues *)
Outcome(steps, sink) ==
    LET attempted == FirstErr(steps) - 1
        accepted == IF sink.limit.some /\ sink.limit.v < attempted
                    THEN sink.limit.v ELSE attempted
    IN [written |-> SubSeq(steps, 1, accepted),
        refused |-> accepted < attempted,
        result |-> IF accepted < Len(steps) THEN "Err" ELSE "Ok"]

(* KmlWriter::from_writer(sink).write(&kml): every write is issued in      *)
(* order until one fails; `?` returns that failure at once.                *)
Write(sink) ==
    \E o \in {Outcome(write_kml(kml), sink)} :
       /\ buf' = o.written
       /\ sinkFailed' = o.refused
       /\ res' = o.result
       /\ outs' = IF o.result = "Ok" THEN Remember(outs, XmlBytes(o.written)) ELSE outs
       /\ decoded' = None
       /\ UNCHANGED <<kml, str>>

(* impl Display for Kml: encode into a fresh Vec (which accepts every      *)
(* write), map any error to fmt::Error, else hand the text to the formatter *)
to_string ==
    \E o \in {Outcome(write_kml(kml), [limit |-> None])} :
       /\ str' = Some([ok |-> o.result = "Ok",
                       s |-> IF o.result = "Ok" THEN XmlBytes(o.written) ELSE ""])
       /\ outs' = IF o.result = "Ok" THEN Remember(outs, XmlBytes(o.written)) ELSE outs
       /\ UNCHANGED <<kml, buf, res, sinkFailed, decoded>>

(* decode what the latest KmlWriter::write left in the sink *)
Decode ==
    /\ res # "None"
    /\ decoded = None
    /\ decoded' = Some(decode(buf))
    /\ UNCHANGED <<kml, buf, res, sinkFailed, outs, str>>

Next ==
    \/ \E sink \in Sinks : Write(sink)
    \/ to_string

Spec == Init /\ [][Next]_vars

(* encode, then decode: the trees every node kind of which the decoder above finalizes *)
RoundTripTrees ==
    {p \in Points : p.attrs = EmptyMap} \cup LineStrings \cup LinearRings \cup Polygons
    \cup MultiGeometries \cup {p \in Placemarks : p.attrs = EmptyMap} \cup Elements
    \cup Links \cup LinkTypeIcons \cup Containers

InitRoundTrip ==
    /\ kml \in RoundTripTrees
    /\ buf = <<>>
    /\ res = "None"
    /\ sinkFailed = FALSE
    /\ outs = <<>>
    /\ str = None
    /\ decoded = None

NextRoundTrip ==
    \/ \E sink \in Sinks : Write(sink)
    \/ Decode

SpecRoundTrip == InitRoundTrip /\ [][NextRoundTrip]_vars

---------------------------------------------------------------------------
(* Reading the structure of what reached the sink *)

(* depth of every write: a start tag and its end tag carry the depth of their element *)
Depths(evs) ==
    [i \in 1..Len(evs) |->
        Cardinality({j \in 1..(i - 1) : evs[j].t = "Start"})
        - Cardinality({j \in 1..i : evs[j].t = "End"})]

(* every end tag closes the innermost element still open, and carries its name *)
ProperlyNested(evs, D) ==
    \A j \in 1..Len(evs) :
        evs[j].t = "End" =>
            \E i \in 1..(j - 1) :
                /\ evs[i].t = "Start" /\ D[i] = D[j] /\ evs[i].name = evs[j].name
                /\ \A k \in (i + 1)..(j - 1) : D[k] > D[i]
(* names of the elements still open at the end, outermost first *)
StillOpen(evs, D) ==
    LET open == SortedSeq({i \in 1..Len(evs) :
                    /\ evs[i].t = "Start"
                    /\ ~\E j \in (i + 1)..Len(evs) : evs[j].t = "End" /\ D[j] = D[i]})
    IN [k \in 1..Len(open) |-> evs[open[k]].name]

(* index of the end tag of the element opened at i (D = Depths(evs)) *)
CloseOf(evs, D, i) ==
    CHOOSE j \in (i + 1)..Len(evs) :
        /\ evs[j].t = "End" /\ D[j] = D[i]
        /\ \A k \in (i + 1)..(j - 1) : ~(evs[k].t = "End" /\ D[k] = D[i])

(* indices of the start tags of the children of the element opened at i, in order *)
ChildStarts(evs, D, i) ==
    SortedSeq({j \in (i + 1)..(CloseOf(evs, D, i) - 1) :
                    evs[j].t = "Start" /\ D[j] = D[i] + 1})
ChildNames(evs, D, i) ==
    LET cs == ChildStarts(evs, D, i) IN [k \in 1..Len(cs) |-> evs[cs[k]].name]
(* the writes of the element opened at i, tags included *)
ElementAt(evs, D, i) == SubSeq(evs, i, CloseOf(evs, D, i))
(* the text directly inside the element opened at i *)
TextOf(evs, D, i) ==
    LET ts == SortedSeq({j \in (i + 1)..(CloseOf(evs, D, i) - 1) :
                            evs[j].t \in {"Text", "Raw"} /\ D[j] = D[i] + 1})
    IN [k \in 1..Len(ts) |-> evs[ts[k]].text]

Rank(order, name) == CHOOSE r \in 1..Len(order) : order[r] = name
(* names all belong to order and follow it, none twice *)
FollowsOrder(names, order) ==
    /\ \A k \in 1..Len(names) : \E r \in 1..Len(order) : order[r] = names[k]
    /\ \A k, l \in 1..Len(names) : k < l => Rank(order, names[k]) < Rank(order, names[l])
Count(names, name) == Cardinality({k \in 1..Len(names) : names[k] = name})

---------------------------------------------------------------------------
(* C2 *)

C3_ErrOnlyFromSink ==
    /\ res = "Err" => sinkFailed
    /\ (res # "None" /\ ~sinkFailed) => res = "Ok"
    /\ str # None => str.v.ok

C3_Witness ==
    /\ res = "Ok" /\ ~sinkFailed
    /\ kml.kind = "MultiGeometry"
    /\ \E i \in 1..Len(kml.geometries) : kml.geometries[i] = UncoveredGeometry

(* C4: the start and end tags that reached the sink are properly nested: every
   end tag closes the innermost open element and carries its name, and after a
   successful write no element is left open. *)
C4_WellNested ==
    \E D \in {Depths(buf)} :
        /\ ProperlyNested(buf, D)
        /\ res = "Ok" => StillOpen(buf, D) = <<>>

C4_Witness ==
    /\ res = "Ok"
    /\ kml.kind = "Polygon" /\ Len(kml.inner) >= 2

GeometryTags == {"Point", "LineString", "LinearRing", "Polygon"}
GeomPropOrder == <<"extrude", "tessellate", "altitudeMode", "coordinates">>
IsGeomProp(name) == \E r \in 1..Len(GeomPropOrder) : GeomPropOrder[r] = name

(* C5: in every Point, LineString, LinearRing and Polygon element of the output
   (nested ones included) the geometry-property children appear in the order
   extrude, tessellate, altitudeMode, coordinates, and the children of a Point
   are exactly extrude, altitudeMode, coordinates. *)
C5_GeomPropOrder ==
    res = "Ok" =>
        \E D \in {Depths(buf)} :
            \A i \in 1..Len(buf) :
                (buf[i].t = "Start" /\ buf[i].name \in GeometryTags) =>
                    \E names \in {ChildNames(buf, D, i)} :
                        /\ FollowsOrder(SelectSeq(names, IsGeomProp), GeomPropOrder)
                        /\ buf[i].name = "Point" =>
                                names = <<"extrude", "altitudeMode", "coordinates">>

C5_Witness ==
    /\ res = "Ok"
    /\ kml.kind = "Polygon" /\ kml.inner # <<>> /\ kml.outer.coords # <<>>
    /\ Count(ChildNames(buf, Depths(buf), 1), "tessellate") = 1

BoolTags == {"extrude", "tessellate", "fill", "outline"}
BoolText(b) == IF b THEN "1" ELSE "0"
(* the text of the one child named tag of the root element *)
RootFieldText(evs, D, tag) ==
    LET cs == ChildStarts(evs, D, 1)
        k == CHOOSE k \in 1..Len(cs) : evs[cs[k]].name = tag
    IN TextOf(evs, D, cs[k])

(* C6: every boolean field (extrude, tessellate, fill, outline) is written as
   "1" when true and "0" when false, never as "true" or "false". *)
C6_BoolsAsDigits ==
    res = "Ok" =>
        \E D \in {Depths(buf)} :
            /\ \A i \in 1..Len(buf) :
                    (buf[i].t = "Start" /\ buf[i].name \in BoolTags) =>
                        TextOf(buf, D, i) \in {<<"0">>, <<"1">>}
            /\ kml.kind \in {"Point", "LineString", "LinearRing", "Polygon"} =>
                    RootFieldText(buf, D, "extrude") = <<BoolText(kml.extrude)>>
            /\ kml.kind \in {"LineString", "LinearRing", "Polygon"} =>
                    RootFieldText(buf, D, "tessellate") = <<BoolText(kml.tessellate)>>
            /\ kml.kind = "PolyStyle" =>
                    /\ RootFieldText(buf, D, "fill") = <<BoolText(kml.fill)>>
                    /\ RootFieldText(buf, D, "outline") = <<BoolText(kml.outline)>>

(* C7: a Polygon is written with exactly one outerBoundaryIs holding exactly
   the outer LinearRing; no innerBoundaryIs when the inner list is empty, else
   exactly one, after outerBoundaryIs, holding the inner rings in list order. *)
C7_PolygonBoundaries ==
    (res = "Ok" /\ kml.kind = "Polygon") =>
        \E D \in {Depths(buf)} :
        \E cs \in {ChildStarts(buf, D, 1)} :
            LET outerAt == {k \in 1..Len(cs) : buf[cs[k]].name = "outerBoundaryIs"}
                innerAt == {k \in 1..Len(cs) : buf[cs[k]].name = "innerBoundaryIs"}
            IN /\ Cardinality(outerAt) = 1
               /\ \A k \in outerAt :
                    \E rs \in {ChildStarts(buf, D, cs[k])} :
                        /\ Len(rs) = 1
                        /\ ElementAt(buf, D, rs[1]) = write_linear_ring(kml.outer)
                        /\ CloseOf(buf, D, rs[1]) + 1 = CloseOf(buf, D, cs[k])
               /\ Cardinality(innerAt) = IF kml.inner = <<>> THEN 0 ELSE 1
               /\ \A k \in innerAt : \A o \in outerAt : o < k
               /\ \A k \in innerAt :
                    \E rs \in {ChildStarts(buf, D, cs[k])} :
                        /\ Len(rs) = Len(kml.inner)
                        /\ \A r \in 1..Len(rs) :
                            /\ buf[rs[r]].name = "LinearRing"
                            /\ ElementAt(buf, D, rs[r]) = write_linear_ring(kml.inner[r])

C7_Witness ==
    /\ res = "Ok"
    /\ kml.kind = "Polygon" /\ Len(kml.inner) >= 2 /\ kml.inner[1] # kml.inner[2]
    /\ Count(ChildNames(buf, Depths(buf), 1), "innerBoundaryIs") = 1

LinkKinds == {"Link", "LinkTypeIcon"}
LinkOrder == <<"href", "refreshMode", "refreshInterval", "viewRefreshMode",
               "viewRefreshTime", "viewBoundScale", "viewFormat", "httpQuery">>
LinkTags == {LinkOrder[r] : r \in 1..Len(LinkOrder)}
Body(evs) == SubSeq(evs, 2, Len(evs) - 1)
(* the same fields under the other of the two variants *)
Counterpart(k) == [k EXCEPT !.kind = IF k.kind = "Link" THEN "LinkTypeIcon" ELSE "Link"]

(* C8: the children of a Link and of a link-type Icon follow the order href,
   refreshMode, refreshInterval, viewRefreshMode, viewRefreshTime,
   viewBoundScale, viewFormat, httpQuery, and the two variants write the same
   attributes and children for equal field values, under the tags Link and Icon. *)
C8_LinkOrder ==
    (res = "Ok" /\ kml.kind \in LinkKinds) =>
        /\ buf[1].name = (IF kml.kind = "Link" THEN "Link" ELSE "Icon")
        /\ FollowsOrder(ChildNames(buf, Depths(buf), 1), LinkOrder)
        /\ \E other \in {write_kml(Counterpart(kml))} :
            /\ Body(buf) = Body(other)
            /\ buf[1].attrs = other[1].attrs
            /\ other[1].name = (IF kml.kind = "Link" THEN "Icon" ELSE "Link")

C8_Witness ==
    /\ res = "Ok"
    /\ kml.kind = "LinkTypeIcon"
    /\ ChildNames(buf, Depths(buf), 1) = LinkOrder

OptionalLinkTags == {"href", "refreshMode", "viewRefreshMode", "viewFormat", "httpQuery"}
HardDefaultTags == {"refreshInterval", "viewRefreshTime", "viewBoundScale"}
(* is the field written under tag present in the node *)
Present(k, tag) ==
    CASE tag = "href" -> k.href.some
      [] tag = "refreshMode" -> k.refresh_mode.some
      [] tag = "viewRefreshMode" -> k.view_refresh_mode.some
      [] tag = "viewFormat" -> k.view_format.some
      [] tag = "httpQuery" -> k.http_query.some
      [] OTHER -> TRUE

(* C9 as stated: four of the eight sub-fields are emitted whatever the node
   holds and the others only when present, so that a default-constructed Link
   has exactly four children. *)
C9_FourAlwaysEmitted ==
    (res = "Ok" /\ kml.kind \in LinkKinds) =>
        \E names \in {ChildNames(buf, Depths(buf), 1)} :
            /\ \E H \in SUBSET LinkTags :
                /\ Cardinality(H) = 4
                /\ \A tag \in H : Count(names, tag) = 1
                /\ \A tag \in LinkTags \ H : Count(names, tag) = 1 => Present(kml, tag)
            /\ kml = DefaultLink => Len(names) = 4

(* C9, amended: the five optional sub-fields (href, refreshMode,
   viewRefreshMode, viewFormat, httpQuery) are each emitted exactly when
   present, and the three with hard defaults (refreshInterval, viewRefreshTime,
   viewBoundScale) are emitted for every Link and link-type Icon, so that a
   default-constructed Link has exactly three children. *)
C9_ThreeAlwaysEmitted ==
    (res = "Ok" /\ kml.kind \in LinkKinds) =>
        \E names \in {ChildNames(buf, Depths(buf), 1)} :
            /\ \A tag \in HardDefaultTags : Count(names, tag) = 1
            /\ \A tag \in OptionalLinkTags :
                    Count(names, tag) = IF Present(kml, tag) THEN 1 ELSE 0
            /\ \A k \in 1..Len(names) : names[k] \in LinkTags
            /\ kml = DefaultLink => Len(names) = 3

C9_Witness ==
    /\ res = "Ok"
    /\ kml = DefaultLink
    /\ ChildNames(buf, Depths(buf), 1) = <<"refreshInterval", "viewRefreshTime", "viewBoundScale">>

(* C10: every node that carries an attribute mapping has each of its key/value
   pairs on its own opening tag, each key once, none as a child element and
   none dropped. *)
C10_AttrsOnOpeningTag ==
    (res = "Ok" /\ "attrs" \in DOMAIN kml) =>
        /\ Len(buf[1].attrs) = Len(kml.attrs)
        /\ MapPairs(buf[1].attrs) = MapPairs(kml.attrs)
        /\ \A i \in 1..Len(buf) : \A a \in 1..Len(kml.attrs) :
                buf[i].t = "Start" => buf[i].name # kml.attrs[a][1]

(* C1: decoding the output of a successful encode succeeds and yields a tree
   structurally equal to the one encoded. *)
C1_RoundTrip ==
    (res = "Ok" /\ decoded # None) =>
        /\ decoded.v.ok
        /\ Norm(decoded.v.tree) = Norm(kml)

StyleKinds == {"Style", "StyleMap", "BalloonStyle", "IconStyle", "LabelStyle", "LineStyle",
               "PolyStyle", "ListStyle"}
(* the field of a Style written under each sub-style tag *)
StyleFieldOf(k, tag) ==
    CASE tag = "BalloonStyle" -> k.balloon
      [] tag = "IconStyle" -> k.icon
      [] tag = "LabelStyle" -> k.label
      [] tag = "LineStyle" -> k.line
      [] tag = "PolyStyle" -> k.poly
      [] tag = "ListStyle" -> k.list

(* C11: Style, StyleMap, BalloonStyle, IconStyle, LabelStyle, LineStyle,
   PolyStyle and ListStyle carry their id as the one attribute `id` of their
   opening tag, whatever the id (the empty one included), and no element named
   id is written; this holds for the sub-styles nested in a Style as well. *)
C11_StyleIdAsAttr ==
    (res = "Ok" /\ kml.kind \in StyleKinds) =>
        \E D \in {Depths(buf)} :
            /\ buf[1].name = kml.kind
            /\ buf[1].attrs = <<<<"id", kml.id>>>>
            /\ \A i \in 1..Len(buf) : buf[i].t = "Start" => buf[i].name # "id"
            /\ kml.kind = "Style" =>
                    \E cs \in {ChildStarts(buf, D, 1)} :
                        \A k \in 1..Len(cs) :
                            /\ buf[cs[k]].name \in StyleKinds
                            /\ StyleFieldOf(kml, buf[cs[k]].name).some
                            /\ buf[cs[k]].attrs =
                                    <<<<"id", StyleFieldOf(kml, buf[cs[k]].name).v.id>>>>

C11_Witness ==
    /\ res = "Ok"
    /\ kml.kind = "Style" /\ kml.label.some /\ kml.line.some
    /\ buf[1].attrs = <<<<"id", "sid">>>>
    /\ Count(ChildNames(buf, Depths(buf), 1), "LineStyle") = 1

(* the children an Alias element must have for the alias a: names and texts *)
AliasChildren(a) ==
    (IF a.target_href.some THEN <<<<"targetHref", a.target_href.v>>>> ELSE <<>>)
    \o (IF a.source_href.some THEN <<<<"sourceHref", a.source_href.v>>>> ELSE <<>>)
(* the element opened at i is an Alias element for the alias a *)
IsAliasElement(evs, D, i, a) ==
    /\ evs[i].name = "Alias"
    /\ \E cs \in {ChildStarts(evs, D, i)} :
        \E want \in {AliasChildren(a)} :
            /\ Len(cs) = Len(want)
            /\ \A k \in 1..Len(cs) :
                /\ evs[cs[k]].name = want[k][1]
                /\ TextOf(evs, D, cs[k]) = <<want[k][2]>>

(* C12: a ResourceMap is written as its opening tag, one Alias element per
   alias in list order and nothing else, then its closing tag; an Alias holds
   targetHref then sourceHref, each exactly when present; with no alias and no
   attribute the bytes are <ResourceMap></ResourceMap>. *)
C12_ResourceMapAliases ==
    res = "Ok" =>
        \E D \in {Depths(buf)} :
            /\ kml.kind = "Alias" => IsAliasElement(buf, D, 1, kml)
            /\ kml.kind = "ResourceMap" =>
                    \E cs \in {ChildStarts(buf, D, 1)} :
                        /\ buf[1].t = "Start" /\ buf[1].name = "ResourceMap"
                        /\ CloseOf(buf, D, 1) = Len(buf)
                        /\ TextOf(buf, D, 1) = <<>>
                        /\ Len(cs) = Len(kml.aliases)
                        /\ \A k \in 1..Len(cs) : IsAliasElement(buf, D, cs[k], kml.aliases[k])
                        /\ (kml.aliases = <<>> /\ kml.attrs = EmptyMap) =>
                                XmlBytes(buf) = "<ResourceMap></ResourceMap>"

C12_Witness ==
    /\ res = "Ok"
    /\ kml.kind = "ResourceMap" /\ Len(kml.aliases) >= 2
    /\ kml.aliases[1] # kml.aliases[2]
    /\ kml.aliases[2].target_href.some /\ kml.aliases[2].source_href.some
    /\ ChildNames(buf, Depths(buf), 1) = <<"Alias", "Alias">>

TripleKinds == {"Scale", "Orientation", "Location"}
(* the three children each of the node kinds must have: names and values *)
TripleOf(k) ==
    CASE k.kind = "Scale" -> <<<<"x", k.x>>, <<"y", k.y>>, <<"z", k.z>>>>
      [] k.kind = "Orientation" ->
            <<<<"roll", k.roll>>, <<"tilt", k.tilt>>, <<"heading", k.heading>>>>
      [] k.kind = "Location" ->
            <<<<"longitude", k.longitude>>, <<"latitude", k.latitude>>,
              <<"altitude", k.altitude>>>>

(* C13: Scale, Orientation and Location are written with exactly three child
   text elements, in the order x, y, z / roll, tilt, heading / longitude,
   latitude, altitude, each holding the text of its value, whether or not the
   value is the default one. *)
C13_ThreeChildrenInOrder ==
    (res = "Ok" /\ kml.kind \in TripleKinds) =>
        \E D \in {Depths(buf)} :
        \E cs \in {ChildStarts(buf, D, 1)} :
        \E want \in {TripleOf(kml)} :
            /\ buf[1].name = kml.kind /\ buf[1].attrs = <<>>
            /\ CloseOf(buf, D, 1) = Len(buf)
            /\ Len(cs) = 3
            /\ TextOf(buf, D, 1) = <<>>
            /\ \A k \in 1..3 :
                /\ buf[cs[k]].name = want[k][1]
                /\ TextOf(buf, D, cs[k]) = <<FloatToString(want[k][2])>>
                /\ ChildStarts(buf, D, cs[k]) = <<>>

C13_Witness ==
    /\ res = "Ok"
    /\ kml.kind = "Scale" /\ kml.x = 35 /\ kml.y = 20 /\ kml.z = 10
    /\ XmlBytes(buf) = "<Scale><x>3.5</x><y>2</y><z>1</z></Scale>"

(* the element opened at i is a SimpleArrayData element for the node a: one
   value child per entry of a.values, in list order *)
IsSimpleArrayDataElement(evs, D, i, a) ==
    /\ evs[i].name = "SimpleArrayData"
    /\ \E cs \in {ChildStarts(evs, D, i)} :
        /\ Len(cs) = Len(a.values)
        /\ \A k \in 1..Len(cs) :
            /\ evs[cs[k]].name = "value"
            /\ TextOf(evs, D, cs[k]) = <<a.values[k]>>

(* C14: a SimpleArrayData is written with one value child per entry of its
   list, in list order, equal entries each written; a SchemaData is written
   with its SimpleData entries in list order, then its SimpleArrayData entries
   in list order, and nothing else. *)
C14_SchemaDataOrder ==
    res = "Ok" =>
        \E D \in {Depths(buf)} :
            /\ kml.kind = "SimpleArrayData" => IsSimpleArrayDataElement(buf, D, 1, kml)
            /\ kml.kind = "SchemaData" =>
                    \E cs \in {ChildStarts(buf, D, 1)} :
                        /\ Len(cs) = Len(kml.data) + Len(kml.arrays)
                        /\ \A k \in 1..Len(kml.data) :
                            /\ buf[cs[k]].name = "SimpleData"
                            /\ TextOf(buf, D, cs[k]) = <<kml.data[k].value>>
                        /\ \A k \in 1..Len(kml.arrays) :
                            IsSimpleArrayDataElement(buf, D, cs[Len(kml.data) + k],
                                                     kml.arrays[k])

C14_Witness ==
    /\ res = "Ok"
    /\ kml.kind = "SchemaData"
    /\ Len(kml.data) >= 2 /\ kml.data[1] # kml.data[2]
    /\ Len(kml.arrays) >= 2 /\ kml.arrays[1].values = <<"113", "113">>
    /\ kml.arrays[2].values = <<"86">>
    /\ ChildNames(buf, Depths(buf), 1) =
            <<"SimpleData", "SimpleData", "SimpleArrayData", "SimpleArrayData">>

ContainerTag(kind) == IF kind = "KmlDocument" THEN "kml" ELSE kind
(* the element opened at i holds the encodings of the nodes of elements, one
   after the other in list order, with nothing before, between or after them *)
HoldsInOrder(evs, D, i, elements) ==
    \E cs \in {ChildStarts(evs, D, i)} :
        /\ Len(cs) = Len(elements)
        /\ TextOf(evs, D, i) = <<>>
        /\ \A k \in 1..Len(cs) :
            /\ evs[cs[k]].name = ContainerTag(elements[k].kind)
            /\ ElementAt(evs, D, cs[k]) = write_kml(elements[k])
            /\ cs[k] = IF k = 1 THEN i + 1 ELSE CloseOf(evs, D, cs[k - 1]) + 1
        /\ CloseOf(evs, D, i) = IF cs = <<>> THEN i + 1 ELSE CloseOf(evs, D, cs[Len(cs)]) + 1

(* C15: a container (kml, Document, Folder) is written as its opening tag,
   then the encoding of every child of its list, each once and in list order,
   then its closing tag; the same holds for a container that is itself a child. *)
C15_ContainerChildren ==
    (res = "Ok" /\ kml.kind \in ContainerKinds) =>
        \E D \in {Depths(buf)} :
            /\ buf[1].t = "Start" /\ buf[1].name = ContainerTag(kml.kind)
            /\ CloseOf(buf, D, 1) = Len(buf)
            /\ buf[Len(buf)].name = ContainerTag(kml.kind)
            /\ HoldsInOrder(buf, D, 1, kml.elements)
            /\ \E cs \in {ChildStarts(buf, D, 1)} :
                    \A k \in 1..Len(cs) :
                        kml.elements[k].kind \in ContainerKinds =>
                            /\ buf[cs[k]].name = ContainerTag(kml.elements[k].kind)
                            /\ HoldsInOrder(buf, D, cs[k], kml.elements[k].elements)

C15_Witness ==
    /\ res = "Ok"
    /\ kml.kind = "Document" /\ Len(kml.elements) >= 2
    /\ kml.elements[1] = AFolder /\ kml.elements[2].kind = "Placemark"
    /\ ChildNames(buf, Depths(buf), 1)[1] = "Folder"
    /\ ChildNames(buf, Depths(buf), 2) = <<"Point">>

(* "x,y" or "x,y,z" *)
CoordText(c) ==
    FloatToString(c.x) \o "," \o FloatToString(c.y)
    \o (IF c.z.some THEN "," \o FloatToString(c.z.v) ELSE "")
(* the coordinates of a non-empty sequence, one per line *)
RECURSIVE LinesOf(_)
LinesOf(cs) ==
    IF Len(cs) = 1 THEN CoordText(cs[1])
    ELSE LinesOf(SubSeq(cs, 1, Len(cs) - 1)) \o "\n" \o CoordText(cs[Len(cs)])
RECURSIVE TotalLen(_)
TotalLen(cs) == IF cs = <<>> THEN 0 ELSE Len(CoordText(Head(cs))) + TotalLen(Tail(cs))
(* the element opened at i carries coords as the claim says *)
CarriesCoordinates(evs, D, i, coords) ==
    \E cs \in {ChildStarts(evs, D, i)} :
        LET at == {k \in 1..Len(cs) : evs[cs[k]].name = "coordinates"}
        IN /\ Cardinality(at) = IF coords = <<>> THEN 0 ELSE 1
           /\ \A k \in at :
                \E text \in {TextOf(evs, D, cs[k])} :
                    /\ Len(text) = 1
                    /\ text[1] = LinesOf(coords)
                    /\ Len(text[1]) = TotalLen(coords) + Len(coords) - 1

(* C16: a LineString or LinearRing with a non-empty coordinate sequence is
   written with exactly one coordinates element, whose text is the coordinates
   in sequence order, each as "x,y" or "x,y,z", separated by one newline, none
   before the first or after the last; with an empty sequence no coordinates
   element is written.  The outer ring of a Polygon is written the same way. *)
C16_CoordinatesText ==
    res = "Ok" =>
        \E D \in {Depths(buf)} :
            /\ kml.kind \in {"LineString", "LinearRing"} =>
                    CarriesCoordinates(buf, D, 1, kml.coords)
            /\ kml.kind = "Polygon" =>
                    \E cs \in {ChildStarts(buf, D, 1)} :
                        \A k \in 1..Len(cs) :
                            buf[cs[k]].name = "outerBoundaryIs" =>
                                CarriesCoordinates(buf, D, cs[k] + 1, kml.outer.coords)

C16_Witness ==
    /\ res = "Ok"
    /\ kml.kind = "LineString"
    /\ kml.coords = <<Coord(-15, 30, Some(0)), Coord(10, 10, None)>>
    /\ RootFieldText(buf, Depths(buf), "coordinates") = <<"-1.5,3,0\n1,1">>

IsCovered(g) == g.kind \in GeometryKinds
(* the element opened at i holds, in list order and with nothing else, the
   encodings of the members of gs that the geometry dispatcher covers *)
HoldsCoveredMembers(evs, D, i, gs) ==
    \E cs \in {ChildStarts(evs, D, i)} :
    \E covered \in {SelectSeq(gs, IsCovered)} :
        /\ Len(cs) = Len(covered)
        /\ TextOf(evs, D, i) = <<>>
        /\ \A k \in 1..Len(cs) :
            /\ evs[cs[k]].name = covered[k].kind
            /\ ElementAt(evs, D, cs[k]) = write_kml(covered[k])
            /\ cs[k] = IF k = 1 THEN i + 1 ELSE CloseOf(evs, D, cs[k - 1]) + 1
        /\ CloseOf(evs, D, i) = IF cs = <<>> THEN i + 1 ELSE CloseOf(evs, D, cs[Len(cs)]) + 1

(* C17: a MultiGeometry is written as its opening tag, then its members in
   list order, each as the geometry dispatcher writes it (Point, LineString,
   LinearRing, Polygon, nested MultiGeometry), then its closing tag; a member
   of a variant without an arm writes nothing, raises no error and leaves the
   other members as they are. *)
C17_MultiGeometryMembers ==
    (res # "None" /\ ~sinkFailed /\ kml.kind = "MultiGeometry") =>
        /\ res = "Ok"
        /\ \E D \in {Depths(buf)} :
            /\ buf[1].t = "Start" /\ buf[1].name = "MultiGeometry"
            /\ CloseOf(buf, D, 1) = Len(buf)
            /\ HoldsCoveredMembers(buf, D, 1, kml.geometries)
            /\ \E cs \in {ChildStarts(buf, D, 1)} :
                \E covered \in {SelectSeq(kml.geometries, IsCovered)} :
                    \A k \in 1..Len(cs) :
                        covered[k].kind = "MultiGeometry" =>
                            HoldsCoveredMembers(buf, D, cs[k], covered[k].geometries)

C17_Witness ==
    /\ res = "Ok"
    /\ kml.kind = "MultiGeometry" /\ Len(kml.geometries) >= 2
    /\ kml.geometries[1] = UncoveredGeometry
    /\ kml.geometries[2] = InnerMultiGeometry
    /\ ChildNames(buf, Depths(buf), 1) = <<"MultiGeometry">>
    /\ ChildNames(buf, Depths(buf), 2) = <<"LineString">>

(* the element opened at i is the generic Element e: its name, its attributes
   on the opening tag, its text (if any) right after the opening tag, then its
   children in list order, each the same way *)
RECURSIVE IsElement(_, _, _, _)
IsElement(evs, D, i, e) ==
    /\ evs[i].t = "Start" /\ evs[i].name = e.name
    /\ Len(evs[i].attrs) = Len(e.attrs) /\ MapPairs(evs[i].attrs) = MapPairs(e.attrs)
    /\ TextOf(evs, D, i) = IF e.content.some THEN <<e.content.v>> ELSE <<>>
    /\ e.content.some => evs[i + 1].t = "Text"
    /\ \E cs \in {ChildStarts(evs, D, i)} :
        /\ Len(cs) = Len(e.children)
        /\ \A k \in 1..Len(cs) : IsElement(evs, D, cs[k], e.children[k])

(* C18: inside the Placemark element come, in this order, name if present,
   description if present, the child Elements in list order (each with its
   attributes, text and children), and last the geometry if present; an absent
   field writes nothing. *)
C18_PlacemarkOrder ==
    (res = "Ok" /\ kml.kind = "Placemark") =>
        \E D \in {Depths(buf)} :
        \E cs \in {ChildStarts(buf, D, 1)} :
            LET n == IF kml.name.some THEN 1 ELSE 0
                d == IF kml.description.some THEN 1 ELSE 0
                c == Len(kml.children)
                g == IF kml.geometry.some THEN 1 ELSE 0
            IN /\ buf[1].name = "Placemark" /\ CloseOf(buf, D, 1) = Len(buf)
               /\ TextOf(buf, D, 1) = <<>>
               /\ Len(cs) = n + d + c + g
               /\ kml.name.some =>
                    /\ buf[cs[1]].name = "name"
                    /\ TextOf(buf, D, cs[1]) = <<kml.name.v>>
               /\ kml.description.some =>
                    /\ buf[cs[n + 1]].name = "description"
                    /\ TextOf(buf, D, cs[n + 1]) = <<kml.description.v>>
               /\ \A k \in 1..c : IsElement(buf, D, cs[n + d + k], kml.children[k])
               /\ kml.geometry.some =>
                    /\ buf[cs[n + d + c + 1]].name = kml.geometry.v.kind
                    /\ ElementAt(buf, D, cs[n + d + c + 1]) = write_kml(kml.geometry.v)

(* the character data of the tree k, wherever the encoder writes some *)
CharacterData(k) ==
    CASE k.kind = "SimpleData" -> {k.value}
      [] k.kind = "SimpleArrayData" -> {k.values[i] : i \in 1..Len(k.values)}
      [] k.kind = "SchemaData" ->
            {k.data[i].value : i \in 1..Len(k.data)}
            \cup UNION {{k.arrays[i].values[j] : j \in 1..Len(k.arrays[i].values)} :
                            i \in 1..Len(k.arrays)}
      [] k.kind = "Element" -> IF k.content.some THEN {k.content.v} ELSE {}
      [] k.kind = "Placemark" ->
            (IF k.name.some THEN {k.name.v} ELSE {})
            \cup (IF k.description.some THEN {k.description.v} ELSE {})
      [] OTHER -> {}

(* C19: every piece of character data reaches the sink through a text event,
   entity-escaped by the event writer; nothing is pushed to the sink as raw
   bytes, so a value holding `&` never appears unescaped in the output. *)
C19_TextThroughEvents ==
    /\ \A i \in 1..Len(buf) : buf[i].t # "Raw"
    /\ res = "Ok" =>
            \A v \in CharacterData(kml) :
                \E i \in 1..Len(buf) : buf[i].t = "Text" /\ buf[i].text = v
    /\ (res = "Ok" /\ kml.kind = "SimpleData" /\ kml.attrs = EmptyMap) =>
            XmlBytes(buf) = "<SimpleData>" \o Escape(kml.value) \o "</SimpleData>"

====
